---- MODULE Spec2Model ----
(***************************************************************************)
(* Model of the blog application of main.py / forms.py: the three tables   *)
(* (users, blog_posts, comments) of the SQLite store, the Flask-Login      *)
(* session of each browser, and one action per route handler.  A handler   *)
(* is a function from the state and the request to its result: the tables  *)
(* and the sessions as it leaves them, and the response it sends.  The     *)
(* tables it leaves are those after its commit, or the tables as they were *)
(* when the commit raised and the request ended with an internal error.    *)
(*                                                                         *)
(* Under Spec a request runs from its first read to its response in one     *)
(* step.  Under ConcSpec a request that writes takes two steps, its reads    *)
(* and checks and then its commit, and the requests of the two browsers      *)
(* interleave between the two.                                               *)
(*                                                                         *)
(* Text fields are strings, "" being an empty field.  The two fields whose *)
(* syntax a validator inspects (email, img_url) are sequences of           *)
(* characters.  The CSRF token of a submitted form is taken to be valid.   *)
(***************************************************************************)
EXTENDS Integers, Sequences, FiniteSets, TLC

VARIABLES
    users,       \* table users:      id -> [email, password, name]
    blog_posts,  \* table blog_posts: id -> [title, subtitle, date, body, img_url, author_id]
    comments,    \* table comments:   id -> [text, author_id, post_id]
    session,     \* browser session -> id of the logged-in user, Anonymous if none
    inflight,    \* browser session -> what its request, past its reads, is about
                 \* to commit; Idle if it has no request between reads and commit
    started      \* number of requests that got as far as a commit (ConcSpec)

vars == <<users, blog_posts, comments, session, inflight, started>>

-----------------------------------------------------------------------------
(* Bounds and input sets *)

\* largest primary key a post may be given
MaxPostId == 2
\* largest primary key a comment may be given
MaxCommentId == 2
\* number of requests that get as far as a commit, under ConcSpec
MaxRequests == 4

Sessions == {"s1", "s2"}

\* session value of a browser that is not logged in
Anonymous == 0

EmailA == <<"a", "@", "x", ".", "c">>
EmailB == <<"b", "@", "x", ".", "c">>
NotAnEmail == <<"a", "x">>

UrlOk == <<"h", ":", "/", "/", "x", ".", "c">>
NotAUrl == <<"x", ".", "c">>

Passwords == {"pw1", "pw2"}
Salts == {"s8a"}
Today == "November 05, 2026"

RegisterForms ==
    {[email |-> EmailA, password |-> "pw1", name |-> "Alice"],
     [email |-> EmailB, password |-> "pw2", name |-> "Bob"],
     [email |-> NotAnEmail, password |-> "pw1", name |-> "Alice"],
     [email |-> EmailA, password |-> "", name |-> "Alice"],
     [email |-> EmailA, password |-> "pw1", name |-> ""]}

LoginForms ==
    [email : {EmailA, EmailB}, password : Passwords]
    \cup {[email |-> NotAnEmail, password |-> "pw1"],
          [email |-> EmailA, password |-> ""]}

CommentForms == [comment_text : {"", "nice", "meh"}]

PostForms ==
    [title : {"Hello", "World"}, subtitle : {"sub"}, img_url : {UrlOk}, body : {"text"}]
    \cup {[title |-> "", subtitle |-> "sub", img_url |-> UrlOk, body |-> "text"],
          [title |-> "Hello", subtitle |-> "sub", img_url |-> NotAUrl, body |-> "text"]}

\* a request without a submitted form (GET)
NoForm == [method |-> "GET"]
Post(form) == [method |-> "POST", form |-> form]

-----------------------------------------------------------------------------
(* forms.py: validators *)

\* a required field that may be left empty
DataOptional(data) == TRUE

\* wtforms DataRequired on a text field
DataRequired(data) == Len(data) > 0

Lower == {"a", "b", "c", "h", "x"}

\* wtforms Email: one "@", a local part, a domain with a dot inside it
Email(data) ==
    \E i \in 1..Len(data) :
        /\ data[i] = "@"
        /\ \A j \in 1..Len(data) : data[j] = "@" => j = i
        /\ i > 1
        /\ \E k \in (i + 2)..(Len(data) - 1) : data[k] = "."

\* wtforms URL: scheme "://" host, the host with a dot inside it
URL(data) ==
    \E i \in 2..Len(data) :
        /\ \A j \in 1..(i - 1) : data[j] \in Lower
        /\ i + 2 <= Len(data)
        /\ data[i] = ":" /\ data[i + 1] = "/" /\ data[i + 2] = "/"
        /\ \E k \in (i + 4)..(Len(data) - 1) : data[k] = "."
        /\ \A k \in (i + 3)..Len(data) : data[k] \notin {"/", ":", "@"}

\* valid: the form's validators accept the submitted fields
validate_on_submit(req, valid) == req.method = "POST" /\ valid

CreatePostForm(f) ==
    /\ DataRequired(f.title)
    /\ DataRequired(f.subtitle)
    /\ DataRequired(f.img_url) /\ URL(f.img_url)
    /\ DataRequired(f.body)

RegisterForm(f) ==
    /\ DataRequired(f.email) /\ Email(f.email)
    /\ DataRequired(f.password)
    /\ DataRequired(f.name)

LoginForm(f) ==
    /\ DataRequired(f.email) /\ Email(f.email)
    /\ DataRequired(f.password)

CommentForm(f) == DataRequired(f.comment_text)

-----------------------------------------------------------------------------
(* The store *)

Max(S) == CHOOSE m \in S : \A n \in S : n <= m

\* SQLite INTEGER PRIMARY KEY without AUTOINCREMENT: one more than the largest key
NextId(table) == IF DOMAIN table = {} THEN 1 ELSE Max(DOMAIN table) + 1

Insert(table, row) == [i \in DOMAIN table \cup {NextId(table)} |->
                          IF i \in DOMAIN table THEN table[i] ELSE row]

Remove(table, id) == [i \in DOMAIN table \ {id} |-> table[i]]

\* a lookup that never finds the user
UserByEmailNone(email) == {}

\* db.select(User).where(User.email == email): ids of the users with that email
UserByEmail(email) == {u \in DOMAIN users : users[u].email = email}

\* value of a column that holds no value
Null == 0

\* an email column without the unique constraint
UniqueEmailOff(U) == TRUE

\* User.email: unique=True
UniqueEmail(U) == \A i, j \in DOMAIN U : U[i].email = U[j].email => i = j

\* BlogPost.title: unique=True
UniqueTitle(P) == \A i, j \in DOMAIN P : P[i].title = P[j].title => i = j

\* Comment.author_id, Comment.post_id: nullable=False
NotNull(C) == \A c \in DOMAIN C : C[c].author_id /= Null /\ C[c].post_id /= Null

\* constraints with the foreign keys of the comments enforced as well
IntegrityWithForeignKeys(U, P, C) ==
    /\ UniqueEmail(U) /\ UniqueTitle(P) /\ NotNull(C)
    /\ \A c \in DOMAIN C :
          C[c].post_id \in DOMAIN P /\ C[c].author_id \in DOMAIN U

\* The constraints SQLite checks when the session is flushed.  Foreign keys are
\* declared but SQLite does not enforce them unless asked to, and nothing asks.
Integrity(U, P, C) == UniqueEmail(U) /\ UniqueTitle(P) /\ NotNull(C)

\* a flush that leaves the comments of a deleted post as they are
OrphanKept(C, post_id) == C

\* BlogPost.comments has no delete cascade: flushing the deletion of a post
\* first blanks the post_id of each of its comments
Orphan(C, post_id) ==
    [c \in DOMAIN C |-> IF C[c].post_id = post_id
                         THEN [C[c] EXCEPT !.post_id = Null]
                         ELSE C[c]]

-----------------------------------------------------------------------------
(* werkzeug.security.  A stored hash is the triple method$salt$digest; the  *)
(* digest is a symbolic one-way term over the salt and the password.        *)

Digest(salt, password) == <<"PBKDF2-HMAC-SHA256", salt, password>>

\* a "hash" that stores the password as it is
generate_password_hash_plain(password, salt) ==
    <<"plain", salt, password>>

generate_password_hash(password, salt) ==
    <<"pbkdf2:sha256", salt, Digest(salt, password)>>

\* a check that accepts every password
check_password_hash_any(pwhash, password) == TRUE

check_password_hash(pwhash, password) ==
    pwhash[3] = Digest(pwhash[2], password)

-----------------------------------------------------------------------------
(* Responses and results *)

Redirect(target, arg, flash) ==
    [status |-> 302, target |-> target, arg |-> arg, flash |-> flash]
Render(template) ==
    [status |-> 200, target |-> template, arg |-> 0, flash |-> ""]
Abort(code) ==
    [status |-> code, target |-> "", arg |-> 0, flash |-> ""]

Result(U, P, C, S, resp) ==
    [users |-> U, blog_posts |-> P, comments |-> C, session |-> S, resp |-> resp]

\* A handler that touched nothing: the response alone
Respond(resp) == Result(users, blog_posts, comments, session, resp)

\* db.session.commit() and what follows it.  U, P, C are the tables as the
\* handler left them in the ORM session, S the browser sessions and resp the
\* response once the commit has succeeded.  A commit that breaks a constraint
\* raises IntegrityError: the handler ends there, the request is answered 500
\* and the transaction is rolled back.
Commit(U, P, C, S, resp) ==
    IF Integrity(U, P, C) THEN Result(U, P, C, S, resp) ELSE Respond(Abort(500))

-----------------------------------------------------------------------------
(* Authorization *)

is_authenticated(s) == session[s] /= Anonymous

\* admin_only letting every logged-in user through
admin_only_any_user(s) == is_authenticated(s)

\* admin_only taking the most recently registered user for the admin
admin_only_last_user(s) == is_authenticated(s) /\ session[s] = Max(DOMAIN users)

admin_only(s) == is_authenticated(s) /\ session[s] = 1

\* comment_owner_or_admin without the ownership test
comment_any_user(s, comment) == is_authenticated(s)

comment_owner_or_admin(s, comment) ==
    /\ is_authenticated(s)
    /\ (session[s] = 1 \/ comment.author_id = session[s])

-----------------------------------------------------------------------------
(* Route handlers *)

\* a registration that, for a stored email, overwrites that user's record
register_upsert(s, req, salt) ==
    IF validate_on_submit(req, RegisterForm(req.form))
    THEN LET new_user == [email |-> req.form.email,
                          password |-> generate_password_hash(req.form.password, salt),
                          name |-> req.form.name]
         IN  IF UserByEmail(req.form.email) /= {}
             THEN Result([u \in DOMAIN users |->
                             IF u \in UserByEmail(req.form.email)
                             THEN [new_user EXCEPT !.name = "renamed"]
                             ELSE users[u]],
                         blog_posts, comments, session,
                         Redirect("login", 0, ""))
             ELSE Commit(Insert(users, new_user), blog_posts, comments,
                         [session EXCEPT ![s] = NextId(users)],
                         Redirect("get_all_posts", 0, ""))
    ELSE Respond(Render("register.html"))

register(s, req, salt) ==
    IF validate_on_submit(req, RegisterForm(req.form))
    THEN IF UserByEmail(req.form.email) /= {}
         THEN Respond(Redirect("login", 0,
                  "You've already signed up with that email. Log in instead."))
         ELSE LET new_user == [email |-> req.form.email,
                               password |-> generate_password_hash(req.form.password, salt),
                               name |-> req.form.name]
              IN  Commit(Insert(users, new_user), blog_posts, comments,
                         [session EXCEPT ![s] = NextId(users)],
                         Redirect("get_all_posts", 0, ""))
    ELSE Respond(Render("register.html"))

\* a login that answers both failures with one message
login_generic(s, req) ==
    IF validate_on_submit(req, LoginForm(req.form))
    THEN IF \/ UserByEmail(req.form.email) = {}
            \/ \A u \in UserByEmail(req.form.email) :
                  ~check_password_hash(users[u].password, req.form.password)
         THEN Respond(Redirect("login", 0, "Invalid credentials."))
         ELSE Result(users, blog_posts, comments,
                     [session EXCEPT ![s] =
                          CHOOSE u \in UserByEmail(req.form.email) : TRUE],
                     Redirect("get_all_posts", 0, ""))
    ELSE Respond(Render("login.html"))

login(s, req) ==
    IF validate_on_submit(req, LoginForm(req.form))
    THEN IF UserByEmail(req.form.email) = {}
         THEN Respond(Redirect("login", 0,
                  "That email does not exist, please try again."))
         ELSE LET user == CHOOSE u \in UserByEmail(req.form.email) : TRUE
              IN  IF ~check_password_hash(users[user].password, req.form.password)
                  THEN Respond(Redirect("login", 0,
                           "Password incorrect, please try again."))
                  ELSE Result(users, blog_posts, comments,
                              [session EXCEPT ![s] = user],
                              Redirect("get_all_posts", 0, ""))
    ELSE Respond(Render("login.html"))

\* a logout that clears every browser's session
logout_everyone(s) ==
    Result(users, blog_posts, comments,
           [t \in Sessions |-> Anonymous],
           Redirect("get_all_posts", 0, ""))

logout(s) ==
    Result(users, blog_posts, comments,
           [session EXCEPT ![s] = Anonymous],
           Redirect("get_all_posts", 0, ""))

get_all_posts(s) == Respond(Render("index.html"))

\* show_post without the login test
show_post_no_login(s, post_id, req) ==
    IF post_id \notin DOMAIN blog_posts
    THEN Respond(Abort(404))
    ELSE IF validate_on_submit(req, CommentForm(req.form))
         THEN LET new_comment == [text |-> req.form.comment_text,
                                  author_id |-> session[s],
                                  post_id |-> post_id]
              IN  Result(users, blog_posts, Insert(comments, new_comment),
                         session, Redirect("show_post", post_id, ""))
         ELSE Respond(Render("post.html"))

show_post(s, post_id, req) ==
    IF post_id \notin DOMAIN blog_posts
    THEN Respond(Abort(404))
    ELSE IF validate_on_submit(req, CommentForm(req.form))
         THEN IF ~is_authenticated(s)
              THEN Respond(Redirect("login", 0,
                       "You need to login or register to comment."))
              ELSE LET new_comment == [text |-> req.form.comment_text,
                                       author_id |-> session[s],
                                       post_id |-> post_id]
                   IN  Commit(users, blog_posts, Insert(comments, new_comment),
                              session, Redirect("show_post", post_id, ""))
         ELSE Respond(Render("post.html"))

\* edit_comment making the editor the comment's author
edit_comment_takes_ownership(s, comment_id, req) ==
    IF ~is_authenticated(s)
    THEN Respond(Redirect("login", 0, "You need to login to edit comments."))
    ELSE IF comment_id \notin DOMAIN comments
    THEN Respond(Abort(404))
    ELSE IF ~comment_owner_or_admin(s, comments[comment_id])
    THEN Respond(Abort(403))
    ELSE IF validate_on_submit(req, CommentForm(req.form))
    THEN Commit(users, blog_posts,
                [comments EXCEPT ![comment_id].text = req.form.comment_text,
                                 ![comment_id].author_id = session[s]],
                session, Redirect("show_post", comments[comment_id].post_id, ""))
    ELSE Respond(Render("edit-comment.html"))

\* edit_comment looking the comment up before it looks at the caller
edit_comment_lookup_first(s, comment_id, req) ==
    IF comment_id \notin DOMAIN comments
    THEN Respond(Abort(404))
    ELSE IF ~is_authenticated(s)
    THEN Respond(Redirect("login", 0, "You need to login to edit comments."))
    ELSE IF ~comment_owner_or_admin(s, comments[comment_id])
    THEN Respond(Abort(403))
    ELSE IF validate_on_submit(req, CommentForm(req.form))
    THEN Commit(users, blog_posts,
                [comments EXCEPT ![comment_id].text = req.form.comment_text],
                session, Redirect("show_post", comments[comment_id].post_id, ""))
    ELSE Respond(Render("edit-comment.html"))

edit_comment(s, comment_id, req) ==
    IF ~is_authenticated(s)
    THEN Respond(Redirect("login", 0, "You need to login to edit comments."))
    ELSE IF comment_id \notin DOMAIN comments
    THEN Respond(Abort(404))
    ELSE IF ~comment_owner_or_admin(s, comments[comment_id])
    THEN Respond(Abort(403))
    ELSE IF validate_on_submit(req, CommentForm(req.form))
    THEN Commit(users, blog_posts,
                [comments EXCEPT ![comment_id].text = req.form.comment_text],
                session, Redirect("show_post", comments[comment_id].post_id, ""))
    ELSE Respond(Render("edit-comment.html"))

delete_comment(s, comment_id) ==
    IF ~is_authenticated(s)
    THEN Respond(Redirect("login", 0, "You need to login to delete comments."))
    ELSE IF comment_id \notin DOMAIN comments
    THEN Respond(Abort(404))
    ELSE IF ~comment_owner_or_admin(s, comments[comment_id])
    THEN Respond(Abort(403))
    ELSE Commit(users, blog_posts, Remove(comments, comment_id),
                session, Redirect("show_post", comments[comment_id].post_id, ""))

add_new_post_body(s, req) ==
    IF validate_on_submit(req, CreatePostForm(req.form))
    THEN LET new_post == [title |-> req.form.title,
                          subtitle |-> req.form.subtitle,
                          body |-> req.form.body,
                          img_url |-> req.form.img_url,
                          date |-> Today,
                          author_id |-> session[s]]
         IN  Commit(users, Insert(blog_posts, new_post), comments,
                    session, Redirect("get_all_posts", 0, ""))
    ELSE Respond(Render("make-post.html"))

add_new_post(s, req) ==
    IF admin_only(s) THEN add_new_post_body(s, req) ELSE Respond(Abort(403))

\* edit_post_body stamping the post with the editing session
edit_post_body_restamped(s, post_id, req) ==
    IF post_id \notin DOMAIN blog_posts
    THEN Respond(Abort(404))
    ELSE IF validate_on_submit(req, CreatePostForm(req.form))
    THEN Commit(users,
                [blog_posts EXCEPT ![post_id].title = req.form.title,
                                   ![post_id].subtitle = req.form.subtitle,
                                   ![post_id].img_url = req.form.img_url,
                                   ![post_id].body = req.form.body,
                                   ![post_id].date = "edited"],
                comments, session, Redirect("show_post", post_id, ""))
    ELSE Respond(Render("make-post.html"))

edit_post_body(s, post_id, req) ==
    IF post_id \notin DOMAIN blog_posts
    THEN Respond(Abort(404))
    ELSE IF validate_on_submit(req, CreatePostForm(req.form))
    THEN Commit(users,
                [blog_posts EXCEPT ![post_id].title = req.form.title,
                                   ![post_id].subtitle = req.form.subtitle,
                                   ![post_id].img_url = req.form.img_url,
                                   ![post_id].body = req.form.body],
                comments, session, Redirect("show_post", post_id, ""))
    ELSE Respond(Render("make-post.html"))

edit_post(s, post_id, req) ==
    IF admin_only(s) THEN edit_post_body(s, post_id, req) ELSE Respond(Abort(403))

delete_post_body(s, post_id) ==
    IF post_id \notin DOMAIN blog_posts
    THEN Respond(Abort(404))
    ELSE Commit(users, Remove(blog_posts, post_id), Orphan(comments, post_id),
                session, Redirect("get_all_posts", 0, ""))

delete_post(s, post_id) ==
    IF admin_only(s) THEN delete_post_body(s, post_id) ELSE Respond(Abort(403))

-----------------------------------------------------------------------------
(* A request in two steps.  The first step is the handler up to its commit: *)
(* the lookups, the checks and the changes made to the objects of its ORM   *)
(* session, which are the work the commit will flush.  The second step is   *)
(* db.session.commit() and what follows it, run on the tables as they then  *)
(* are.                                                                     *)

\* no request between its reads and its commit
Idle == [route |-> "idle"]

register_work(s, req, salt) ==
    IF /\ validate_on_submit(req, RegisterForm(req.form))
       /\ UserByEmail(req.form.email) = {}
    THEN [route |-> "register",
          row |-> [email |-> req.form.email,
                   password |-> generate_password_hash(req.form.password, salt),
                   name |-> req.form.name]]
    ELSE Idle

show_post_work(s, post_id, req) ==
    IF /\ post_id \in DOMAIN blog_posts
       /\ validate_on_submit(req, CommentForm(req.form))
       /\ is_authenticated(s)
    THEN [route |-> "show_post",
          row |-> [text |-> req.form.comment_text,
                   author_id |-> session[s],
                   post_id |-> post_id]]
    ELSE Idle

edit_comment_work(s, comment_id, req) ==
    IF /\ is_authenticated(s)
       /\ comment_id \in DOMAIN comments
       /\ comment_owner_or_admin(s, comments[comment_id])
       /\ validate_on_submit(req, CommentForm(req.form))
    THEN [route |-> "edit_comment", id |-> comment_id,
          loaded |-> comments[comment_id],
          text |-> req.form.comment_text]
    ELSE Idle

delete_comment_work(s, comment_id) ==
    IF /\ is_authenticated(s)
       /\ comment_id \in DOMAIN comments
       /\ comment_owner_or_admin(s, comments[comment_id])
    THEN [route |-> "delete_comment", id |-> comment_id,
          post_id |-> comments[comment_id].post_id]
    ELSE Idle

add_new_post_work(s, req) ==
    IF admin_only(s) /\ validate_on_submit(req, CreatePostForm(req.form))
    THEN [route |-> "add_new_post",
          row |-> [title |-> req.form.title,
                   subtitle |-> req.form.subtitle,
                   body |-> req.form.body,
                   img_url |-> req.form.img_url,
                   date |-> Today,
                   author_id |-> session[s]]]
    ELSE Idle

edit_post_work(s, post_id, req) ==
    IF /\ admin_only(s)
       /\ post_id \in DOMAIN blog_posts
       /\ validate_on_submit(req, CreatePostForm(req.form))
    THEN [route |-> "edit_post", id |-> post_id,
          loaded |-> blog_posts[post_id],
          form |-> req.form]
    ELSE Idle

delete_post_work(s, post_id) ==
    IF admin_only(s) /\ post_id \in DOMAIN blog_posts
    THEN [route |-> "delete_post", id |-> post_id]
    ELSE Idle

\* The UPDATE the flush emits sets the columns whose value differs from the
\* one loaded, and no others
Flushed(row, loaded, new) ==
    [k \in DOMAIN row |->
        IF k \in DOMAIN new /\ new[k] /= loaded[k] THEN new[k] ELSE row[k]]

\* the commit of the work w of browser s, on the tables as they are now
finish(s, w) ==
    CASE w.route = "register" ->
            Commit(Insert(users, w.row), blog_posts, comments,
                   [session EXCEPT ![s] = NextId(users)],
                   Redirect("get_all_posts", 0, ""))
      [] w.route = "show_post" ->
            Commit(users, blog_posts, Insert(comments, w.row),
                   session, Redirect("show_post", w.row.post_id, ""))
      [] w.route = "edit_comment" ->
            IF w.id \notin DOMAIN comments
            THEN Respond(Abort(500))
            ELSE Commit(users, blog_posts,
                        [comments EXCEPT ![w.id] =
                             Flushed(@, w.loaded, [text |-> w.text])],
                        session, Redirect("show_post", comments[w.id].post_id, ""))
      [] w.route = "delete_comment" ->
            Commit(users, blog_posts, Remove(comments, w.id),
                   session, Redirect("show_post", w.post_id, ""))
      [] w.route = "add_new_post" ->
            Commit(users, Insert(blog_posts, w.row), comments,
                   session, Redirect("get_all_posts", 0, ""))
      [] w.route = "edit_post" ->
            IF w.id \notin DOMAIN blog_posts
            THEN Respond(Abort(500))
            ELSE Commit(users,
                        [blog_posts EXCEPT ![w.id] = Flushed(@, w.loaded, w.form)],
                        comments, session, Redirect("show_post", w.id, ""))
      [] w.route = "delete_post" ->
            Commit(users, Remove(blog_posts, w.id), Orphan(comments, w.id),
                   session, Redirect("get_all_posts", 0, ""))

-----------------------------------------------------------------------------
(* The state machine: any browser sends any request at any time *)

Init ==
    /\ users = <<>>
    /\ blog_posts = <<>>
    /\ comments = <<>>
    /\ session = [s \in Sessions |-> Anonymous]
    /\ inflight = [s \in Sessions |-> Idle]
    /\ started = 0

PostIds == 1..MaxPostId
CommentIds == 1..MaxCommentId

Requests(forms) == {NoForm} \cup {Post(f) : f \in forms}

\* Primary keys stay within the bounds.  (In the actions, \E r \in {e} names
\* the result e of the handler, which is then computed once.)
InBounds(r) ==
    /\ DOMAIN r.blog_posts \subseteq PostIds
    /\ DOMAIN r.comments \subseteq CommentIds

Register ==
    \E s \in Sessions, req \in Requests(RegisterForms), salt \in Salts :
        \E r \in {register(s, req, salt)} :
            /\ InBounds(r)
            /\ users' = r.users /\ blog_posts' = r.blog_posts
            /\ comments' = r.comments /\ session' = r.session
            /\ UNCHANGED <<inflight, started>>

Login ==
    \E s \in Sessions, req \in Requests(LoginForms) :
        \E r \in {login(s, req)} :
            /\ InBounds(r)
            /\ users' = r.users /\ blog_posts' = r.blog_posts
            /\ comments' = r.comments /\ session' = r.session
            /\ UNCHANGED <<inflight, started>>

Logout ==
    \E s \in Sessions :
        \E r \in {logout(s)} :
            /\ InBounds(r)
            /\ users' = r.users /\ blog_posts' = r.blog_posts
            /\ comments' = r.comments /\ session' = r.session
            /\ UNCHANGED <<inflight, started>>

GetAllPosts ==
    \E s \in Sessions :
        \E r \in {get_all_posts(s)} :
            /\ InBounds(r)
            /\ users' = r.users /\ blog_posts' = r.blog_posts
            /\ comments' = r.comments /\ session' = r.session
            /\ UNCHANGED <<inflight, started>>

ShowPost ==
    \E s \in Sessions, id \in PostIds, req \in Requests(CommentForms) :
        \E r \in {show_post(s, id, req)} :
            /\ InBounds(r)
            /\ users' = r.users /\ blog_posts' = r.blog_posts
            /\ comments' = r.comments /\ session' = r.session
            /\ UNCHANGED <<inflight, started>>

EditComment ==
    \E s \in Sessions, id \in CommentIds, req \in Requests(CommentForms) :
        \E r \in {edit_comment(s, id, req)} :
            /\ InBounds(r)
            /\ users' = r.users /\ blog_posts' = r.blog_posts
            /\ comments' = r.comments /\ session' = r.session
            /\ UNCHANGED <<inflight, started>>

DeleteComment ==
    \E s \in Sessions, id \in CommentIds :
        \E r \in {delete_comment(s, id)} :
            /\ InBounds(r)
            /\ users' = r.users /\ blog_posts' = r.blog_posts
            /\ comments' = r.comments /\ session' = r.session
            /\ UNCHANGED <<inflight, started>>

AddNewPost ==
    \E s \in Sessions, req \in Requests(PostForms) :
        \E r \in {add_new_post(s, req)} :
            /\ InBounds(r)
            /\ users' = r.users /\ blog_posts' = r.blog_posts
            /\ comments' = r.comments /\ session' = r.session
            /\ UNCHANGED <<inflight, started>>

EditPost ==
    \E s \in Sessions, id \in PostIds, req \in Requests(PostForms) :
        \E r \in {edit_post(s, id, req)} :
            /\ InBounds(r)
            /\ users' = r.users /\ blog_posts' = r.blog_posts
            /\ comments' = r.comments /\ session' = r.session
            /\ UNCHANGED <<inflight, started>>

DeletePost ==
    \E s \in Sessions, id \in PostIds :
        \E r \in {delete_post(s, id)} :
            /\ InBounds(r)
            /\ users' = r.users /\ blog_posts' = r.blog_posts
            /\ comments' = r.comments /\ session' = r.session
            /\ UNCHANGED <<inflight, started>>

Next ==
    \/ Register
    \/ Login
    \/ Logout
    \/ GetAllPosts
    \/ ShowPost
    \/ EditComment
    \/ DeleteComment
    \/ AddNewPost
    \/ EditPost
    \/ DeletePost

Spec == Init /\ [][Next]_vars
-----------------------------------------------------------------------------
(* The requests interleaved: a browser's request does its reads in one step  *)
(* and commits in a later one; the other browser's steps may fall between.   *)

ValidRegisterForms == {f \in RegisterForms : RegisterForm(f)}
NewCommentForms == [comment_text : {"nice"}]
EditCommentForms == [comment_text : {"meh", "fine"}]
NewPostForms == {f \in PostForms : CreatePostForm(f)}
\* the edit form as the browser got it, filled with the post's fields, and the
\* body rewritten
EditPostForms(id) ==
    {[title |-> blog_posts[id].title, subtitle |-> blog_posts[id].subtitle,
      img_url |-> blog_posts[id].img_url, body |-> b] : b \in {"draft", "final"}}

\* The first step of a request.  A handler that returns before any commit
\* leaves nothing in flight; one that reaches its commit counts as started.
RegisterBegin ==
    \E s \in Sessions, f \in ValidRegisterForms, salt \in Salts :
        \E w \in {register_work(s, Post(f), salt)} :
            /\ inflight[s] = Idle
            /\ w /= Idle => started < MaxRequests
            /\ inflight' = [inflight EXCEPT ![s] = w]
            /\ started' = IF w = Idle THEN started ELSE started + 1
            /\ UNCHANGED <<users, blog_posts, comments, session>>

ShowPostBegin ==
    \E s \in Sessions, id \in PostIds, f \in NewCommentForms :
        \E w \in {show_post_work(s, id, Post(f))} :
            /\ inflight[s] = Idle
            /\ w /= Idle => started < MaxRequests
            /\ inflight' = [inflight EXCEPT ![s] = w]
            /\ started' = IF w = Idle THEN started ELSE started + 1
            /\ UNCHANGED <<users, blog_posts, comments, session>>

EditCommentBegin ==
    \E s \in Sessions, id \in CommentIds, f \in EditCommentForms :
        \E w \in {edit_comment_work(s, id, Post(f))} :
            /\ inflight[s] = Idle
            /\ w /= Idle => started < MaxRequests
            /\ inflight' = [inflight EXCEPT ![s] = w]
            /\ started' = IF w = Idle THEN started ELSE started + 1
            /\ UNCHANGED <<users, blog_posts, comments, session>>

DeleteCommentBegin ==
    \E s \in Sessions, id \in CommentIds :
        \E w \in {delete_comment_work(s, id)} :
            /\ inflight[s] = Idle
            /\ w /= Idle => started < MaxRequests
            /\ inflight' = [inflight EXCEPT ![s] = w]
            /\ started' = IF w = Idle THEN started ELSE started + 1
            /\ UNCHANGED <<users, blog_posts, comments, session>>

AddNewPostBegin ==
    \E s \in Sessions, f \in NewPostForms :
        \E w \in {add_new_post_work(s, Post(f))} :
            /\ inflight[s] = Idle
            /\ w /= Idle => started < MaxRequests
            /\ inflight' = [inflight EXCEPT ![s] = w]
            /\ started' = IF w = Idle THEN started ELSE started + 1
            /\ UNCHANGED <<users, blog_posts, comments, session>>

EditPostBegin ==
    \E s \in Sessions, id \in DOMAIN blog_posts :
        \E f \in EditPostForms(id) :
            \E w \in {edit_post_work(s, id, Post(f))} :
                /\ inflight[s] = Idle
                /\ w /= Idle => started < MaxRequests
                /\ inflight' = [inflight EXCEPT ![s] = w]
                /\ started' = IF w = Idle THEN started ELSE started + 1
                /\ UNCHANGED <<users, blog_posts, comments, session>>

DeletePostBegin ==
    \E s \in Sessions, id \in PostIds :
        \E w \in {delete_post_work(s, id)} :
            /\ inflight[s] = Idle
            /\ w /= Idle => started < MaxRequests
            /\ inflight' = [inflight EXCEPT ![s] = w]
            /\ started' = IF w = Idle THEN started ELSE started + 1
            /\ UNCHANGED <<users, blog_posts, comments, session>>

Finish ==
    \E s \in Sessions :
        /\ inflight[s] /= Idle
        /\ \E r \in {finish(s, inflight[s])} :
              /\ users' = r.users /\ blog_posts' = r.blog_posts
              /\ comments' = r.comments /\ session' = r.session
              /\ inflight' = [inflight EXCEPT ![s] = Idle]
              /\ UNCHANGED started

ConcNext ==
    \/ RegisterBegin
    \/ ShowPostBegin
    \/ EditCommentBegin
    \/ DeleteCommentBegin
    \/ AddNewPostBegin
    \/ EditPostBegin
    \/ DeletePostBegin
    \/ Finish

\* The blog as the requests find it: Alice, the first registrant, has written
\* two posts and a comment on the first; each browser is logged in as Alice or
\* is anonymous.  (Spec reaches these tables with each of these sessions;
\* /login and /logout, which commit nothing, have no step of their own here.)
ConcInit ==
    /\ users = <<[email |-> EmailA,
                  password |-> generate_password_hash("pw1", "s8a"),
                  name |-> "Alice"]>>
    /\ blog_posts = <<[title |-> "Hello", subtitle |-> "sub", body |-> "text",
                       img_url |-> UrlOk, date |-> Today, author_id |-> 1],
                      [title |-> "World", subtitle |-> "sub", body |-> "text",
                       img_url |-> UrlOk, date |-> Today, author_id |-> 1]>>
    /\ comments = <<[text |-> "nice", author_id |-> 1, post_id |-> 1]>>
    /\ session \in [Sessions -> {Anonymous, 1}]
    /\ inflight = [s \in Sessions |-> Idle]
    /\ started = 0

ConcSpec == ConcInit /\ [][ConcNext]_vars
-----------------------------------------------------------------------------
(* Properties.  Each is stated of the result a handler gives in a reachable   *)
(* state; the conditions on the caller and on the store are written out here, *)
(* not taken from the handlers' helpers.  \A r \in {e} names the result e.    *)

Stored(email) == \E u \in DOMAIN users : users[u].email = email

Unchanged(r) ==
    /\ r.users = users
    /\ r.blog_posts = blog_posts
    /\ r.comments = comments
    /\ r.session = session

\* the password an email address is registered with
RegisteredPassword(email) ==
    (CHOOSE f \in RegisterForms : f.email = email /\ f.password /= "" /\ f.name /= "").password

PostRouteResults(s) ==
    {add_new_post(s, req) : req \in Requests(PostForms)}
    \cup {edit_post(s, id, req) : id \in PostIds, req \in Requests(PostForms)}
    \cup {delete_post(s, id) : id \in PostIds}

\* no request of session s to a route other than the three post routes changes
\* the posts
OtherRoutesKeepPosts(s) ==
    /\ \A req \in Requests(RegisterForms), salt \in Salts :
          register(s, req, salt).blog_posts = blog_posts
    /\ \A req \in Requests(LoginForms) : login(s, req).blog_posts = blog_posts
    /\ logout(s).blog_posts = blog_posts
    /\ get_all_posts(s).blog_posts = blog_posts
    /\ \A id \in PostIds, req \in Requests(CommentForms) :
          show_post(s, id, req).blog_posts = blog_posts
    /\ \A id \in CommentIds, req \in Requests(CommentForms) :
          edit_comment(s, id, req).blog_posts = blog_posts
    /\ \A id \in CommentIds : delete_comment(s, id).blog_posts = blog_posts

\* C1: a request to /new-post, /edit-post/{id} or /delete/{id} from a session
\* that is, at the time of the request, anonymous or logged in as a user other
\* than 1 is answered 403 and changes nothing; no request of any other route
\* changes the posts, so every creation, edit and deletion of a post is the
\* work of a session logged in as user 1.
C1_PostRoutesAdminOnly ==
    \A s \in Sessions :
        /\ session[s] /= 1
              => \A r \in PostRouteResults(s) : r.resp = Abort(403) /\ Unchanged(r)
        /\ OtherRoutesKeepPosts(s)

\* C1 witness: a post exists, no session is the admin's any more (the admin
\* logged out or switched user), one is logged in as user 2, and its request to
\* delete the post is answered 403
C1_Witness ==
    /\ \A s \in Sessions : session[s] /= 1
    /\ \E s \in Sessions, id \in DOMAIN blog_posts :
          session[s] = 2 /\ delete_post(s, id).resp.status = 403

MayModify(s, c) ==
    /\ session[s] /= Anonymous
    /\ (session[s] = comments[c].author_id \/ session[s] = 1)

Refused(s, r) ==
    /\ Unchanged(r)
    /\ r.resp.status = IF session[s] = Anonymous THEN 302 ELSE 403
    /\ session[s] = Anonymous => r.resp.target = "login"

\* C2: for an existing comment c, a submitted edit sets c's text and a delete
\* request removes c exactly when the session is logged in as c's author or as
\* user 1; any other logged-in user gets 403, an anonymous caller is sent to
\* the login form, and in both cases nothing is changed.
C2_CommentOwnerOrAdmin ==
    \A s \in Sessions, c \in DOMAIN comments :
        /\ \A f \in CommentForms :
              f.comment_text /= ""
                  => \A r \in {edit_comment(s, c, Post(f))} :
                         IF MayModify(s, c)
                         THEN /\ r.comments = [comments EXCEPT ![c].text = f.comment_text]
                              /\ r.resp = Redirect("show_post", comments[c].post_id, "")
                         ELSE Refused(s, r)
        /\ \A req \in Requests(CommentForms) :
              ~MayModify(s, c) => \A r \in {edit_comment(s, c, req)} : Refused(s, r)
        /\ \A r \in {delete_comment(s, c)} :
               IF MayModify(s, c)
               THEN /\ r.comments = Remove(comments, c)
                    /\ r.resp = Redirect("show_post", comments[c].post_id, "")
               ELSE Refused(s, r)

\* C2 witness: user 2, neither the admin nor the author of a stored comment, is
\* answered 403 when asking to delete it, while the comment's author may
C2_Witness ==
    \E s \in Sessions, c \in DOMAIN comments :
        /\ session[s] = 2
        /\ comments[c].author_id = 1
        /\ delete_comment(s, c).resp.status = 403
        /\ \E t \in Sessions : session[t] = 1 /\ c \notin DOMAIN delete_comment(t, c).comments

\* C3 (as claimed): when the admin requests /delete/{id} for a post that has
\* comments, the post is removed and no comment references it afterwards.
C3_DeletePostRemovesDependents ==
    \A s \in Sessions, id \in DOMAIN blog_posts :
        (session[s] = 1 /\ \E c \in DOMAIN comments : comments[c].post_id = id)
            => \A r \in {delete_post(s, id)} :
                   /\ id \notin DOMAIN r.blog_posts
                   /\ \A c \in DOMAIN r.comments : r.comments[c].post_id /= id

\* C4: every comment names a stored user as author and a stored post as
\* parent, and every post names a stored user as author; no key is null.
C4_ReferentialIntegrity ==
    /\ \A c \in DOMAIN comments :
          /\ comments[c].author_id /= Null /\ comments[c].author_id \in DOMAIN users
          /\ comments[c].post_id /= Null /\ comments[c].post_id \in DOMAIN blog_posts
    /\ \A p \in DOMAIN blog_posts :
          blog_posts[p].author_id /= Null /\ blog_posts[p].author_id \in DOMAIN users

\* C4 witness: two posts, each with a comment, the comments by different users
C4_Witness ==
    \E c, d \in DOMAIN comments :
        /\ comments[c].post_id /= comments[d].post_id
        /\ comments[c].author_id /= comments[d].author_id
        /\ Cardinality(DOMAIN blog_posts) = 2

\* C5: a /register submission whose email is the email of a stored user adds
\* no user, changes no user and leaves the session as it was, so an anonymous
\* caller stays anonymous; when the rest of the form is filled in, the answer
\* is a redirect to the login form with a notice.
C5_DuplicateEmailRejected ==
    \A s \in Sessions, f \in RegisterForms, salt \in Salts :
        Stored(f.email)
            => \A r \in {register(s, Post(f), salt)} :
                   /\ Unchanged(r)
                   /\ session[s] = Anonymous => r.session[s] = Anonymous
                   /\ (f.password /= "" /\ f.name /= "")
                         => r.resp = Redirect("login", 0,
                                "You've already signed up with that email. Log in instead.")

\* C5 witness: a user is stored and an anonymous browser that registers with
\* that user's email is sent to the login form
C5_Witness ==
    \E s \in Sessions, f \in RegisterForms, salt \in Salts :
        /\ session[s] = Anonymous
        /\ Stored(f.email)
        /\ register(s, Post(f), salt).resp.target = "login"

\* C6 (as claimed): when the admin submits /new-post with the title of a stored
\* post, the posts are unchanged and the answer is a redirect with a notice.
C6_DuplicateTitleRecovered ==
    \A s \in Sessions, f \in PostForms :
        (/\ session[s] = 1
         /\ CreatePostForm(f)
         /\ \E p \in DOMAIN blog_posts : blog_posts[p].title = f.title)
            => \A r \in {add_new_post(s, Post(f))} :
                   /\ r.blog_posts = blog_posts
                   /\ r.resp.status = 302
                   /\ r.resp.flash /= ""

\* C7: a /login submission logs the session in as u exactly when a user u with
\* the submitted email is stored and the submitted password is the one u
\* registered with; otherwise the session is as it was.  The store is never
\* changed, and what is stored as a password is a hash, never the plaintext.
C7_LoginIffPasswordVerifies ==
    /\ \A s \in Sessions, f \in LoginForms :
          \A r \in {login(s, Post(f))},
             match \in {{u \in DOMAIN users :
                            /\ users[u].email = f.email
                            /\ f.password = RegisteredPassword(f.email)}} :
              /\ r.users = users /\ r.blog_posts = blog_posts /\ r.comments = comments
              /\ IF match /= {}
                 THEN \E u \in match : r.session = [session EXCEPT ![s] = u]
                 ELSE r.session = session
    /\ \A u \in DOMAIN users :
          /\ users[u].password /= RegisteredPassword(users[u].email)
          /\ users[u].password[1] = "pbkdf2:sha256"
          /\ users[u].password[3] /= RegisteredPassword(users[u].email)

\* C7 witness: both browsers are logged in as the same user (one of them by
\* /login), and a login with the other password would leave the session alone
C7_Witness ==
    /\ \A s \in Sessions : session[s] = 1
    /\ \E s \in Sessions, f \in LoginForms :
          /\ f.email = users[1].email
          /\ f.password \in Passwords
          /\ login(s, Post(f)).resp.target = "login"

FailedLoginPair(f, g) ==
    /\ LoginForm(f) /\ LoginForm(g)
    /\ ~Stored(f.email)
    /\ Stored(g.email) /\ g.password /= RegisteredPassword(g.email)

C9_RegisterCreatesUser ==
    \A s \in Sessions, f \in RegisterForms, salt \in Salts :
        (/\ f.email \in {EmailA, EmailB} /\ f.password /= "" /\ f.name /= ""
         /\ ~Stored(f.email))
            => \A r \in {register(s, Post(f), salt)} :
                   \E id \in DOMAIN r.users \ DOMAIN users :
                      /\ DOMAIN r.users = DOMAIN users \cup {id}
                      /\ \A u \in DOMAIN users : r.users[u] = users[u]
                      /\ r.users[id].email = f.email
                      /\ r.users[id].name = f.name
                      /\ r.users[id].password /= f.password
                      /\ r.users[id].password[1] = "pbkdf2:sha256"
                      /\ r.users[id].password[3] /= f.password
                      /\ r.session = [session EXCEPT ![s] = id]
                      /\ r.blog_posts = blog_posts /\ r.comments = comments
                      /\ r.resp = Redirect("get_all_posts", 0, "")

\* C9 witness: a second user has registered and is logged in, and the first
\* user is stored as before
C9_Witness ==
    /\ DOMAIN users = {1, 2}
    /\ \E s \in Sessions : session[s] = 2
    /\ users[2].password[3] /= RegisteredPassword(users[2].email)

\* C10: /logout leaves the session anonymous whatever it was, leaves the store
\* and every other session as they were, and changes nothing when the session
\* is anonymous already, as it is after a first logout.
C10_LogoutUnconditional ==
    \A s \in Sessions :
        \A r \in {logout(s)} :
            /\ r.session[s] = Anonymous
            /\ \A t \in Sessions \ {s} : r.session[t] = session[t]
            /\ r.users = users /\ r.blog_posts = blog_posts /\ r.comments = comments
            /\ r.resp = Redirect("get_all_posts", 0, "")
            /\ session[s] = Anonymous => Unchanged(r)

\* C10 witness: two browsers are logged in and the logout of one leaves the
\* other logged in
C10_Witness ==
    \E s, t \in Sessions :
        /\ s /= t
        /\ session[s] /= Anonymous /\ session[t] /= Anonymous
        /\ logout(s).session[s] = Anonymous
        /\ logout(s).session[t] = session[t]

\* the lowest identifier a stored user has: the first registrant's
LowestId == CHOOSE m \in DOMAIN users : \A n \in DOMAIN users : m <= n

\* C11: once a user is stored, the admin test passes for a session exactly when
\* it is logged in as the stored user with the lowest identifier, which is 1;
\* it fails for every other user and for an anonymous session; and no step
\* removes that user, changes its record or makes another user the lowest.
C11_AdminIsFirstUser ==
    /\ [](DOMAIN users /= {}
            => /\ LowestId = 1
               /\ \A s \in Sessions :
                     /\ session[s] \in DOMAIN users \cup {Anonymous}
                     /\ admin_only(s) <=> session[s] = LowestId
                     /\ session[s] = Anonymous => ~admin_only(s))
    /\ [][DOMAIN users /= {}
            => /\ DOMAIN users' /= {}
               /\ LowestId' = LowestId
               /\ users'[LowestId] = users[LowestId]]_vars

\* C11 witness: two users are stored, one browser is logged in as the first and
\* passes the admin test, the other is logged in as the second and fails it
C11_Witness ==
    /\ DOMAIN users = {1, 2}
    /\ \E s, t \in Sessions :
          /\ session[s] = 1 /\ admin_only(s)
          /\ session[t] = 2 /\ ~admin_only(t)

\* C12: a submitted comment (a non-empty text) on /post/{id} for a stored post
\* adds, when the session is logged in as u, exactly one comment, by u, on that
\* post, with the submitted text, and changes nothing else; from an anonymous
\* session it changes nothing and is answered with a redirect to the login
\* form.  For an id that is no stored post the answer is 404 and nothing changes.
C12_CommentIffAuthenticated ==
    \A s \in Sessions, id \in PostIds :
        IF id \in DOMAIN blog_posts
        THEN \A f \in CommentForms :
                 f.comment_text /= ""
                     => \A r \in {show_post(s, id, Post(f))} :
                            IF session[s] /= Anonymous
                            THEN /\ \E c \in DOMAIN r.comments \ DOMAIN comments :
                                       /\ DOMAIN r.comments = DOMAIN comments \cup {c}
                                       /\ r.comments[c] = [text |-> f.comment_text,
                                                           author_id |-> session[s],
                                                           post_id |-> id]
                                 /\ \A c \in DOMAIN comments : r.comments[c] = comments[c]
                                 /\ r.users = users /\ r.blog_posts = blog_posts
                                 /\ r.session = session
                                 /\ r.resp = Redirect("show_post", id, "")
                            ELSE /\ Unchanged(r)
                                 /\ r.resp.status = 302 /\ r.resp.target = "login"
        ELSE \A req \in Requests(CommentForms) :
                 \A r \in {show_post(s, id, req)} :
                     Unchanged(r) /\ r.resp = Abort(404)

\* C12 witness: user 2 has commented on a stored post, one browser is anonymous
\* and its comment on that post is answered with a redirect to the login form,
\* and some post id is unknown
C12_Witness ==
    \E s \in Sessions, c \in DOMAIN comments :
        /\ comments[c].author_id = 2
        /\ session[s] = Anonymous
        /\ show_post(s, comments[c].post_id,
                     Post([comment_text |-> "nice"])).resp.target = "login"
        /\ PostIds \ DOMAIN blog_posts /= {}

\* a field of the form violates its rule: a required field is empty, the email
\* is no email address, the image URL is no URL
RegisterViolation(f) == f.email = NotAnEmail \/ f.password = "" \/ f.name = ""
LoginViolation(f) == f.email = NotAnEmail \/ f.password = ""
CommentViolation(f) == f.comment_text = ""
PostViolation(f) ==
    f.title = "" \/ f.subtitle = "" \/ f.body = "" \/ f.img_url = NotAUrl

\* the answer to a submission that was not let through to the form: sent to
\* the login form, refused (403) or not found (404)
Turned(r) ==
    \/ r.resp.status = 302 /\ r.resp.target = "login"
    \/ r.resp = Abort(403)
    \/ r.resp = Abort(404)

\* C13 (as claimed): every submission to /register, /login, /post/{id},
\* /edit-comment/{id}, /new-post or /edit-post/{id} in which a field violates
\* its rule is answered with the same form again and changes nothing.
C13_InvalidFormRepresented ==
    \A s \in Sessions :
        /\ \A f \in RegisterForms, salt \in Salts :
              RegisterViolation(f)
                  => \A r \in {register(s, Post(f), salt)} :
                         Unchanged(r) /\ r.resp = Render("register.html")
        /\ \A f \in LoginForms :
              LoginViolation(f)
                  => \A r \in {login(s, Post(f))} :
                         Unchanged(r) /\ r.resp = Render("login.html")
        /\ \A f \in CommentForms, id \in PostIds :
              CommentViolation(f)
                  => \A r \in {show_post(s, id, Post(f))} :
                         Unchanged(r) /\ r.resp = Render("post.html")
        /\ \A f \in CommentForms, id \in CommentIds :
              CommentViolation(f)
                  => \A r \in {edit_comment(s, id, Post(f))} :
                         Unchanged(r) /\ r.resp = Render("edit-comment.html")
        /\ \A f \in PostForms :
              PostViolation(f)
                  => \A r \in {add_new_post(s, Post(f))} :
                         Unchanged(r) /\ r.resp = Render("make-post.html")
        /\ \A f \in PostForms, id \in PostIds :
              PostViolation(f)
                  => \A r \in {edit_post(s, id, Post(f))} :
                         Unchanged(r) /\ r.resp = Render("make-post.html")

\* C13 (amended): such a submission changes nothing, whoever sends it; the
\* same form is presented again when the caller is let through to it (any
\* caller on /register and /login, any caller on /post/{id} for a stored post,
\* the comment's author or the admin on /edit-comment/{id} for a stored
\* comment, the admin on /new-post and on /edit-post/{id} for a stored post),
\* and otherwise the caller is sent to the login form, refused or told the
\* target is not found.
C13_InvalidFormChangesNothing ==
    \A s \in Sessions :
        /\ \A f \in RegisterForms, salt \in Salts :
              RegisterViolation(f)
                  => \A r \in {register(s, Post(f), salt)} :
                         Unchanged(r) /\ r.resp = Render("register.html")
        /\ \A f \in LoginForms :
              LoginViolation(f)
                  => \A r \in {login(s, Post(f))} :
                         Unchanged(r) /\ r.resp = Render("login.html")
        /\ \A f \in CommentForms, id \in PostIds :
              CommentViolation(f)
                  => \A r \in {show_post(s, id, Post(f))} :
                         /\ Unchanged(r)
                         /\ IF id \in DOMAIN blog_posts
                            THEN r.resp = Render("post.html")
                            ELSE Turned(r)
        /\ \A f \in CommentForms, id \in CommentIds :
              CommentViolation(f)
                  => \A r \in {edit_comment(s, id, Post(f))} :
                         /\ Unchanged(r)
                         /\ IF id \in DOMAIN comments /\ MayModify(s, id)
                            THEN r.resp = Render("edit-comment.html")
                            ELSE Turned(r)
        /\ \A f \in PostForms :
              PostViolation(f)
                  => \A r \in {add_new_post(s, Post(f))} :
                         /\ Unchanged(r)
                         /\ IF session[s] = 1
                            THEN r.resp = Render("make-post.html")
                            ELSE Turned(r)
        /\ \A f \in PostForms, id \in PostIds :
              PostViolation(f)
                  => \A r \in {edit_post(s, id, Post(f))} :
                         /\ Unchanged(r)
                         /\ IF session[s] = 1 /\ id \in DOMAIN blog_posts
                            THEN r.resp = Render("make-post.html")
                            ELSE Turned(r)

\* C13 witness: a post and a comment by user 2 are stored; user 2, logged in,
\* submits an empty text for that comment and gets the form again, and submits
\* a post form with a bad image URL and is refused
C13_Witness ==
    \E s \in Sessions, c \in DOMAIN comments, f \in PostForms :
        /\ session[s] = 2 /\ comments[c].author_id = 2
        /\ edit_comment(s, c, Post([comment_text |-> ""])).resp
               = Render("edit-comment.html")
        /\ f.img_url = NotAUrl
        /\ add_new_post(s, Post(f)).resp = Abort(403)

\* C14 (as claimed): on every mutation route the caller is checked before the
\* submitted input is: a caller who is not logged in, or not allowed, gets the
\* refusal (a redirect to the login form, or 403) and nothing changes, whether
\* the submitted form is valid or not.
C14_RefusedWhateverTheInput ==
    \A s \in Sessions :
        /\ session[s] = Anonymous
              => \A id \in DOMAIN blog_posts, f \in CommentForms :
                     \A r \in {show_post(s, id, Post(f))} :
                         /\ Unchanged(r)
                         /\ r.resp.status = 302 /\ r.resp.target = "login"
        /\ \A c \in DOMAIN comments :
              ~MayModify(s, c)
                  => /\ \A f \in CommentForms :
                           Refused(s, edit_comment(s, c, Post(f)))
                     /\ Refused(s, delete_comment(s, c))
        /\ session[s] /= 1
              => /\ \A f \in PostForms :
                       \A r \in {add_new_post(s, Post(f))} :
                           Unchanged(r) /\ r.resp = Abort(403)
                 /\ \A id \in DOMAIN blog_posts, f \in PostForms :
                       \A r \in {edit_post(s, id, Post(f))} :
                           Unchanged(r) /\ r.resp = Abort(403)
                 /\ \A id \in DOMAIN blog_posts :
                       \A r \in {delete_post(s, id)} :
                           Unchanged(r) /\ r.resp = Abort(403)

\* C15: no step removes a stored user or changes a stored user's id, email,
\* name or password hash; a step that changes the users is a registration, and
\* it adds exactly one user.
C15_UsersAppendOnly ==
    [][/\ \A u \in DOMAIN users : u \in DOMAIN users' /\ users'[u] = users[u]
       /\ users' /= users
             => /\ Cardinality(DOMAIN users') = Cardinality(DOMAIN users) + 1
                /\ Register]_vars

\* C15 witness: after posts and comments were written and every browser has
\* logged out, the two users are stored with the records they registered with
C15_Witness ==
    /\ DOMAIN users = {1, 2}
    /\ DOMAIN blog_posts /= {} /\ DOMAIN comments /= {}
    /\ users[1].name = "Alice" /\ users[1].email = EmailA
    /\ users[2].name = "Bob" /\ users[2].email = EmailB
    /\ \A s \in Sessions : session[s] = Anonymous

ToLogin(r) == Unchanged(r) /\ r.resp.status = 302 /\ r.resp.target = "login"

\* C17: on /edit-comment/{id} and /delete-comment/{id} an anonymous caller is
\* sent to the login form whether the comment is stored or not; a logged-in
\* caller gets 404 for an id that is not stored, and 403 for a stored comment
\* of which it is neither the author nor the admin.  On /new-post,
\* /edit-post/{id} and /delete/{id} every caller other than the admin, an
\* anonymous one too, gets 403 whether the post is stored or not, and the admin
\* gets 404 for an id that is not stored.
C17_OrderOfChecks ==
    \A s \in Sessions :
        /\ \A c \in CommentIds :
              \A d \in {delete_comment(s, c)} :
                  /\ session[s] = Anonymous => ToLogin(d)
                  /\ (session[s] /= Anonymous /\ c \notin DOMAIN comments)
                        => Unchanged(d) /\ d.resp = Abort(404)
                  /\ d.resp = Abort(403)
                        <=> /\ c \in DOMAIN comments
                            /\ session[s] \notin {Anonymous, 1, comments[c].author_id}
                  /\ \A req \in Requests(CommentForms) :
                        \A r \in {edit_comment(s, c, req)} :
                            /\ session[s] = Anonymous => ToLogin(r)
                            /\ (session[s] /= Anonymous /\ c \notin DOMAIN comments)
                                  => Unchanged(r) /\ r.resp = Abort(404)
                            /\ r.resp = Abort(403)
                                  <=> /\ c \in DOMAIN comments
                                      /\ session[s] \notin
                                             {Anonymous, 1, comments[c].author_id}
        /\ \A r \in PostRouteResults(s) :
              /\ session[s] /= 1 => Unchanged(r) /\ r.resp = Abort(403)
              /\ r.resp = Abort(404) => session[s] = 1
        /\ \A p \in PostIds \ DOMAIN blog_posts :
              session[s] = 1
                  => /\ delete_post(s, p).resp = Abort(404)
                     /\ \A req \in Requests(PostForms) :
                           edit_post(s, p, req).resp = Abort(404)

\* C17 witness: a comment by the admin is stored and another comment id is not,
\* some post id is not stored; one browser is anonymous and is sent to the
\* login form for the unknown comment, the other is logged in as user 2 and
\* gets 404 for the unknown comment, 403 for the stored one and 403 for the
\* unknown post
C17_Witness ==
    \E s, t \in Sessions, c \in DOMAIN comments,
       d \in CommentIds \ DOMAIN comments, p \in PostIds \ DOMAIN blog_posts :
        /\ session[s] = Anonymous /\ session[t] = 2
        /\ comments[c].author_id = 1
        /\ edit_comment(s, d, NoForm).resp.target = "login"
        /\ delete_comment(t, d).resp = Abort(404)
        /\ delete_comment(t, c).resp = Abort(403)
        /\ delete_post(t, p).resp = Abort(403)
        /\ delete_post(s, p).resp = Abort(403)

\* C18: an edit of comment c that goes through sets c's text and leaves c's
\* author and post as they were, so the author may still edit and delete c
\* also after the admin edited it; a delete that goes through removes c and
\* no other comment; both leave every other comment, every post, every user
\* and every session as they were.
C18_CommentMutationFrame ==
    \A s \in Sessions, c \in DOMAIN comments :
        MayModify(s, c)
            => /\ \A f \in CommentForms :
                     f.comment_text /= ""
                         => \A r \in {edit_comment(s, c, Post(f))} :
                                /\ r.resp.status = 302
                                /\ DOMAIN r.comments = DOMAIN comments
                                /\ r.comments[c].text = f.comment_text
                                /\ r.comments[c].author_id = comments[c].author_id
                                /\ r.comments[c].post_id = comments[c].post_id
                                /\ \A d \in DOMAIN comments \ {c} :
                                       r.comments[d] = comments[d]
                                /\ r.users = users /\ r.blog_posts = blog_posts
                                /\ r.session = session
                                /\ \A t \in Sessions :
                                       session[t] = comments[c].author_id
                                           => comment_owner_or_admin(t, r.comments[c])
               /\ \A r \in {delete_comment(s, c)} :
                      /\ r.resp.status = 302
                      /\ DOMAIN r.comments = DOMAIN comments \ {c}
                      /\ \A d \in DOMAIN comments \ {c} : r.comments[d] = comments[d]
                      /\ r.users = users /\ r.blog_posts = blog_posts
                      /\ r.session = session

\* C18 witness: two comments are stored, one of them by user 2, who is logged
\* in; the admin, logged in too, edits it and user 2 is still its author
C18_Witness ==
    \E s, t \in Sessions, c \in DOMAIN comments :
        /\ Cardinality(DOMAIN comments) = 2
        /\ session[s] = 1 /\ session[t] = 2
        /\ comments[c].author_id = 2
        /\ comments[c].text = "nice"
        /\ edit_comment(s, c, Post([comment_text |-> "meh"])).comments[c]
               = [comments[c] EXCEPT !.text = "meh"]

\* C20: every stored post has user 1 as author.  A post is created with the
\* creating session's user as author, and only a session logged in as user 1
\* creates one; an edit that goes through sets title, subtitle, image URL and
\* body and leaves the post's id, author and date, every other post and every
\* comment as they were.
C20_PostsByAdmin ==
    /\ \A p \in DOMAIN blog_posts : blog_posts[p].author_id = 1
    /\ \A s \in Sessions, f \in PostForms :
          \A r \in {add_new_post(s, Post(f))} :
              \A p \in DOMAIN r.blog_posts \ DOMAIN blog_posts :
                  session[s] = 1 /\ r.blog_posts[p].author_id = session[s]
    /\ \A s \in Sessions, id \in DOMAIN blog_posts, f \in PostForms :
          \A r \in {edit_post(s, id, Post(f))} :
              r.resp.status = 302
                  => /\ r.blog_posts =
                            [blog_posts EXCEPT ![id] =
                                [title |-> f.title, subtitle |-> f.subtitle,
                                 img_url |-> f.img_url, body |-> f.body,
                                 date |-> blog_posts[id].date,
                                 author_id |-> blog_posts[id].author_id]]
                     /\ r.comments = comments /\ r.users = users
                     /\ r.session = session

\* C20 witness: user 2 is logged in, two posts are stored, one of them with a
\* comment, and the admin's edit of that post's title goes through
C20_Witness ==
    \E s, t \in Sessions, c \in DOMAIN comments, f \in PostForms :
        /\ session[s] = 1 /\ session[t] = 2
        /\ Cardinality(DOMAIN blog_posts) = 2
        /\ f.title = blog_posts[comments[c].post_id].title
        /\ edit_post(s, comments[c].post_id, Post(f)).resp.status = 302

\* the browser's request loaded a row, another request has since committed a
\* different value to the column this request sets, and this request is about
\* to commit its own
StaleEdit(s) ==
    \/ /\ inflight[s].route = "edit_comment"
       /\ inflight[s].id \in DOMAIN comments
       /\ inflight[s].text /= inflight[s].loaded.text
       /\ comments[inflight[s].id].text \notin
              {inflight[s].loaded.text, inflight[s].text}
    \/ /\ inflight[s].route = "edit_post"
       /\ inflight[s].id \in DOMAIN blog_posts
       /\ inflight[s].form.body /= inflight[s].loaded.body
       /\ blog_posts[inflight[s].id].body \notin
              {inflight[s].loaded.body, inflight[s].form.body}

\* C16: nothing stands in the way of the two races.  (a) The commit of a
\* comment whose post was deleted after the request looked it up goes through,
\* and leaves a comment that names a post that is not stored.  (b) The commit
\* of an edit goes through and sets the column it changed whatever was
\* committed to that row since the request loaded it, so an edit committed in
\* between is overwritten, and the request is answered as any successful edit.
C16_RacesGoThrough ==
    \A s \in Sessions :
        \A w \in {inflight[s]} :
            /\ (w.route = "show_post" /\ w.row.post_id \notin DOMAIN blog_posts)
                  => \A r \in {finish(s, w)} :
                         /\ r.resp = Redirect("show_post", w.row.post_id, "")
                         /\ \E c \in DOMAIN r.comments \ DOMAIN comments :
                                /\ r.comments[c] = w.row
                                /\ r.comments[c].post_id \notin DOMAIN r.blog_posts
            /\ (/\ w.route = "edit_comment" /\ w.id \in DOMAIN comments
                 /\ w.text /= w.loaded.text)
                  => \A r \in {finish(s, w)} :
                         /\ r.resp.status = 302
                         /\ r.comments[w.id].text = w.text
            /\ (/\ w.route = "edit_post" /\ w.id \in DOMAIN blog_posts
                 /\ w.form.body /= w.loaded.body)
                  => \A r \in {finish(s, w)} :
                         /\ r.resp.status = 302
                         /\ r.blog_posts[w.id].body = w.form.body

\* C16 witness: both races in one run.  A comment names a post that is no
\* longer stored; and a browser is about to commit an edit of a row to which
\* the other browser's edit, begun from the same loaded value, has been
\* committed, and its commit replaces that value
C16_Witness ==
    /\ \E c \in DOMAIN comments : comments[c].post_id \notin DOMAIN blog_posts
    /\ \E s \in Sessions :
          /\ StaleEdit(s)
          /\ finish(s, inflight[s]).resp.status = 302
          /\ finish(s, inflight[s]).comments /= comments
                \/ finish(s, inflight[s]).blog_posts /= blog_posts

\* C19: in every state, also between the lookup and the commit of interleaved
\* registrations, no two stored users have the same email.  The commit of a
\* registration whose email has been stored since its lookup is rejected: it
\* adds no user and leaves the session as it was (an anonymous browser stays
\* anonymous); the commit of one whose email is still not stored adds that
\* user alone and logs the browser in as that user.
C19_EmailUniqueUnderRace ==
    /\ \A u, v \in DOMAIN users : users[u].email = users[v].email => u = v
    /\ \A s \in Sessions :
          \A w \in {inflight[s]} :
              w.route = "register"
                  => \A r \in {finish(s, w)} :
                         IF \E u \in DOMAIN users : users[u].email = w.row.email
                         THEN /\ Unchanged(r)
                              /\ r.resp = Abort(500)
                         ELSE \E id \in DOMAIN r.users \ DOMAIN users :
                                  /\ DOMAIN r.users = DOMAIN users \cup {id}
                                  /\ r.users[id] = w.row
                                  /\ \A u \in DOMAIN users : r.users[u] = users[u]
                                  /\ r.session = [session EXCEPT ![s] = id]

\* C19 witness: two registrations with the same new email both passed the
\* lookup; one has committed and its browser is logged in as the new user, the
\* other, from an anonymous browser, is about to commit and will be rejected
C19_Witness ==
    \E s, t \in Sessions, u \in DOMAIN users :
        /\ s /= t
        /\ inflight[s].route = "register"
        /\ inflight[s].row.email = users[u].email
        /\ session[t] = u /\ u /= 1
        /\ session[s] = Anonymous
        /\ finish(s, inflight[s]).resp = Abort(500)
        /\ finish(s, inflight[s]).session[s] = Anonymous
====
